---- MODULE Spec2Model ----
(***************************************************************************)
(* Model of the inline theme script of AstroThemesNext.astro and of the    *)
(* setTheme helper of utils.ts.                                            *)
(*                                                                         *)
(* JavaScript values are modelled as strings.  Null stands for both null   *)
(* and undefined (the script only ever tests them for truthiness), and an  *)
(* absent DOM attribute is Null as well (getAttribute returns null).       *)
(***************************************************************************)
EXTENDS Integers, Sequences, FiniteSets, TLC

VARIABLES
  cfg,            \* the props handed to the script by define:vars (immutable)
  stored,         \* localStorage entry under storageKey (Null when absent)
  lsMode,         \* localStorage of this browsing session: "ok" | "quota" (setItem
                  \* throws) | "denied" (every access throws)
  prefersDark,    \* prefersDark.matches
  root,           \* document.documentElement: data attributes, classList, style.colorScheme
  newDocRoot,     \* documentElement of e.newDocument when the last event was
                  \* astro:before-swap (NoDocument otherwise: no other event has one)
  headStyles,     \* number of transition-disabling <style> elements in document.head
  timers,         \* number of pending setTimeout callbacks of disableAnimation
  storageEvents,  \* storage events dispatched to the window and not yet handled
  loaded,         \* the module script has run (listeners registered, first refreshTheme done)
  lastEvent,      \* the event whose handler ran last
  repeated,       \* that event is the same as the one handled just before it
  lastApply,      \* the arguments of the applyTheme call of the last handler
  stylesAtWrite,  \* <style> elements in document.head when that call wrote the element
  incomingRoot,   \* documentElement of e.newDocument as astro:before-swap delivered it
  lastResolve,    \* what getResolveTheme read and returned in the last handler
  uncaught        \* the last handler ended with an uncaught exception

vars == <<cfg, stored, lsMode, prefersDark, root, newDocRoot, headStyles, timers,
          storageEvents, loaded, lastEvent, repeated, lastApply, stylesAtWrite,
          incomingRoot, lastResolve, uncaught>>

----------------------------------------------------------------------------
(* Bounds *)

MaxStyles == 2    \* injected <style> elements awaiting their removal timer
MaxPending == 1   \* storage events queued for the window

----------------------------------------------------------------------------
(* Values *)

Null == "<null>"

Truthy(v) == v \notin {Null, ""}

\* a || b
Or(a, b) == IF Truthy(a) THEN a ELSE b

storageKey == "theme"

colorSchemes == {"light", "dark"}

defaultThemes == {"light", "dark"}

\* Theme names a page may hand to the script; "sepia" is a custom theme.
ThemeNames == {"light", "dark", "system", "sepia"}

\* Attribute names starting with "data-" (attr.startsWith('data-')).
DataAttrs == {"data-theme", "data-mode"}

NoValueMap == [present |-> FALSE, map |-> <<>>]

FullValueMap ==
  [present |-> TRUE,
   map |-> [t \in {"light", "dark", "sepia"} |->
              CASE t = "light" -> "theme-light"
                [] t = "dark"  -> "theme-dark"
                [] OTHER       -> "theme-sepia"]]

PartialValueMap ==
  [present |-> TRUE,
   map |-> [t \in {"light", "dark"} |->
              IF t = "light" THEN "theme-light" ELSE "theme-dark"]]

\* Astro.props after the destructuring defaults.
Props(ft, dt, es, ec, df, at, vm) ==
  [forcedTheme |-> ft, disableTransitionOnChange |-> dt, enableSystem |-> es,
   enableColorScheme |-> ec, themes |-> defaultThemes, defaultTheme |-> df,
   attribute |-> at, value |-> vm]

\* The configurations explored: every combination of system detection, default
\* theme, attribute target kind and value map, and the remaining flags varied
\* around the component's defaults.
Configs ==
  { Props(Null, FALSE, es, TRUE, df, at, vm) :
      es \in BOOLEAN, df \in {"system", "light"},
      at \in {<<"data-theme">>, <<"class", "data-mode">>},
      vm \in {NoValueMap, FullValueMap, PartialValueMap} }
  \cup
  { Props(ft, dt, TRUE, ec, "system", <<"data-theme">>, NoValueMap) :
      ft \in {Null, "dark"}, dt \in BOOLEAN, ec \in BOOLEAN }
  \cup
  { Props(Null, FALSE, TRUE, TRUE, "light", <<"title">>, NoValueMap),
    Props(Null, TRUE, FALSE, FALSE, "sepia", <<"class">>, FullValueMap) }

EmptyRoot ==
  [data |-> [a \in DataAttrs |-> Null], classList |-> <<>>, colorScheme |-> ""]

\* Root elements as the server may have rendered them.
NoDocument == EmptyRoot

InitRoots ==
  { EmptyRoot,
    [data |-> [a \in DataAttrs |-> "light"], classList |-> <<"page", "light">>,
     colorScheme |-> "light"] }

----------------------------------------------------------------------------
(* Helpers of the script *)

Range(s) == { s[i] : i \in 1..Len(s) }

\* DOMTokenList.remove(...tokens)
ClassListRemove(list, tokens) == SelectSeq(list, LAMBDA x : x \notin tokens)

\* Mutant: the class is appended to the class string without the ordered-set check.
ClassListAdd_Append(list, token) == Append(list, token)

\* DOMTokenList.add(token): an ordered set, a token already present stays put
ClassListAdd(list, token) == IF token \in Range(list) THEN list ELSE Append(list, token)

\* Mutant: the fallback wins over the stored value (fallback || theme).
getTheme_FallbackFirst(mode, st, fallback) ==
  LET theme == IF mode = "denied" THEN Null ELSE Or(st, Null)
  IN  [threw |-> FALSE, value |-> Or(fallback, theme)]

\* const getTheme = (key, fallback) => ...   (key is always storageKey)
\* threw: an exception left the function; the try/catch lets none out.
getTheme(mode, st, fallback) ==
  LET theme == IF mode = "denied" THEN Null ELSE Or(st, Null)
  IN  [threw |-> FALSE, value |-> Or(theme, fallback)]

\* Mutant: the media query result is read the wrong way round.
getSystemTheme_Inverted(dark) == IF dark THEN "light" ELSE "dark"

getSystemTheme(dark) == IF dark THEN "dark" ELSE "light"

\* Mutant: "system" is returned as it is, without consulting the media query.
getResolveTheme_NoSystem(c, mode, st, dark) ==
  LET t == getTheme(mode, st, c.defaultTheme)
  IN  [threw |-> t.threw, value |-> t.value]

getResolveTheme(c, mode, st, dark) ==
  LET t == getTheme(mode, st, c.defaultTheme)
  IN  [threw |-> t.threw,
       value |-> IF t.value = "system" THEN getSystemTheme(dark) ELSE t.value]

\* Mutant: no try/catch, the exception of setItem leaves the function.
saveToLS_NoCatch(mode, st, v) ==
  [threw |-> mode # "ok", stored |-> IF mode = "ok" THEN v ELSE st]

\* Mutant: the value is written under another key.
saveToLS_WrongKey(mode, st, v) == [threw |-> FALSE, stored |-> st]

\* const saveToLS = (storageKey, value) => ...
saveToLS(mode, st, v) ==
  [threw |-> FALSE, stored |-> IF mode = "ok" THEN v ELSE st]

\* const attrs = !value ? themes : Object.keys(value)
attrs(c) == IF ~c.value.present THEN c.themes ELSE DOMAIN c.value.map

\* let resolved = theme; if (theme === 'system' && enableSystem) resolved = getSystemTheme()
ResolvedOf(c, theme, dark) ==
  IF theme = "system" /\ c.enableSystem THEN getSystemTheme(dark) ELSE theme

\* Mutant: a theme without an entry in the value map falls back to its own name.
NameOf_FallbackToTheme(c, resolved) ==
  IF c.value.present /\ resolved \in DOMAIN c.value.map
    THEN c.value.map[resolved]
    ELSE resolved

\* const name = value ? value[resolved] : resolved
NameOf(c, resolved) ==
  IF c.value.present
    THEN IF resolved \in DOMAIN c.value.map THEN c.value.map[resolved] ELSE Null
    ELSE resolved

handleAttribute(c, name, d, attr) ==
  IF attr = "class"
    THEN LET removed == ClassListRemove(d.classList, attrs(c))
         IN  [d EXCEPT !.classList = IF Truthy(name) THEN ClassListAdd(removed, name)
                                                      ELSE removed]
    ELSE IF attr \in DataAttrs
      THEN [d EXCEPT !.data[attr] = IF Truthy(name) THEN name ELSE Null]
      ELSE d

RECURSIVE forEachAttribute(_, _, _, _)
forEachAttribute(c, name, d, targets) ==
  IF targets = <<>> THEN d
  ELSE forEachAttribute(c, name, handleAttribute(c, name, d, Head(targets)), Tail(targets))

\* Mutant: a theme that is no color scheme clears the style, the default is not
\* consulted.
setColorScheme_NoFallback(c, resolved, d) ==
  IF c.enableColorScheme
    THEN [d EXCEPT !.colorScheme = IF resolved \in colorSchemes THEN resolved ELSE ""]
    ELSE d

\* if (enableColorScheme) { ... d.style.colorScheme = colorScheme }
\* Assigning null to a style property clears it (reads back as "").
setColorScheme(c, resolved, d) ==
  IF c.enableColorScheme
    THEN LET fallback == IF c.defaultTheme \in colorSchemes THEN c.defaultTheme ELSE Null
             colorScheme == IF resolved \in colorSchemes THEN resolved ELSE fallback
         IN  [d EXCEPT !.colorScheme = IF colorScheme = Null THEN "" ELSE colorScheme]
    ELSE d

\* disableAnimation(nonce) appends one <style> to document.head; the function it
\* returns (called at the end of applyTheme) forces a restyle and sets the timer
\* that removes the element.
disableAnimation(head) == head + 1

\* Mutant: the transitions are disabled only after the element was written.
applyTheme_WriteFirst(c, theme, dark, d, head, pending) ==
  IF ~Truthy(theme)
    THEN [d |-> d, head |-> head, timers |-> pending, headAtWrite |-> head]
  ELSE [d |-> setColorScheme(c, ResolvedOf(c, theme, dark),
                forEachAttribute(c, NameOf(c, ResolvedOf(c, theme, dark)), d, c.attribute)),
        head |-> IF c.disableTransitionOnChange THEN disableAnimation(head) ELSE head,
        timers |-> IF c.disableTransitionOnChange THEN pending + 1 ELSE pending,
        headAtWrite |-> head]

\* applyTheme(theme, doc) on documentElement d; head and pending are document.head's
\* injected styles and the pending removal timers of the current document.
\* headAtWrite: the injected styles in the head while handleAttribute writes d
\* (disableAnimation runs on line 143, the writes on lines 159-166, enable() last).
applyTheme(c, theme, dark, d, head, pending) ==
  IF ~Truthy(theme)
    THEN [d |-> d, head |-> head, timers |-> pending, headAtWrite |-> head]
  ELSE LET resolved == ResolvedOf(c, theme, dark)
           name == NameOf(c, resolved)
           injected == IF c.disableTransitionOnChange THEN disableAnimation(head) ELSE head
           d1 == forEachAttribute(c, name, d, c.attribute)
           d2 == setColorScheme(c, resolved, d1)
       IN  [d |-> d2,
            head |-> injected,
            timers |-> IF c.disableTransitionOnChange THEN pending + 1 ELSE pending,
            headAtWrite |-> injected]

\* Mutant: the element written is always that of the current document.
TargetOf_AlwaysCurrent(doc) == "document"

\* const d = doc ? doc.documentElement : document.documentElement
TargetOf(doc) == IF Truthy(doc) THEN doc ELSE "document"

----------------------------------------------------------------------------
(* State and handlers *)

NoEvent == [kind |-> "none", key |-> Null, detail |-> Null]

NoApply == [called |-> FALSE, theme |-> Null, doc |-> Null]

\* applyTheme(theme) / applyTheme(theme, e.newDocument)
Applied(theme, doc) == [called |-> TRUE, theme |-> theme, doc |-> doc]

NoResolve == [called |-> FALSE, read |-> Null, dark |-> FALSE, result |-> Null]

\* What localStorage.getItem(storageKey) yields in getTheme.
ReadOf(mode, st) == IF mode = "denied" THEN "<throws>" ELSE st

Resolution(c, mode, st, dark) ==
  [called |-> TRUE, read |-> ReadOf(mode, st), dark |-> dark,
   result |-> getResolveTheme(c, mode, st, dark).value]

\* Values another browsing context may leave under storageKey.
StoredValues == {Null, "", "dark", "system", "sepia"}

\* detail of a set-theme event: setTheme(newTheme), null included
Details == {Null} \cup ThemeNames

Handled(e) ==
  /\ lastEvent' = e
  /\ repeated' = (e = lastEvent)

\* an applyTheme that injects a <style> needs room under the bound
StyleRoom == cfg.disableTransitionOnChange => headStyles < MaxStyles

\* Storage notifications are delivered before the window handles anything else:
\* cross-context writes are observed, never raced against.
CanApply == StyleRoom /\ storageEvents = <<>>

Init ==
  /\ cfg \in Configs
  /\ stored \in {Null, "dark", "system", "sepia"}
  /\ lsMode \in {"ok", "quota", "denied"}
  /\ prefersDark \in BOOLEAN
  /\ root \in InitRoots
  /\ newDocRoot = NoDocument
  /\ headStyles = 0
  /\ timers = 0
  /\ storageEvents = <<>>
  /\ loaded = FALSE
  /\ lastEvent = NoEvent
  /\ repeated = FALSE
  /\ lastApply = NoApply
  /\ stylesAtWrite = 0
  /\ incomingRoot = NoDocument
  /\ lastResolve = NoResolve
  /\ uncaught = FALSE

\* const refreshTheme = () => { applyTheme(getResolveTheme()) }
\* dark: prefersDark.matches when the listener runs
refreshTheme(kind, dark) ==
  LET r == getResolveTheme(cfg, lsMode, stored, dark)
      a == applyTheme(cfg, r.value, dark, root, headStyles, timers)
  IN  /\ Handled([kind |-> kind, key |-> Null, detail |-> Null])
      /\ lastResolve' = Resolution(cfg, lsMode, stored, dark)
      /\ lastApply' = IF r.threw THEN NoApply ELSE Applied(r.value, "document")
      /\ stylesAtWrite' = IF r.threw THEN 0 ELSE a.headAtWrite
      /\ incomingRoot' = NoDocument
      /\ uncaught' = r.threw
      /\ IF r.threw
           THEN UNCHANGED <<root, headStyles, timers>>
           ELSE /\ root' = a.d
                /\ headStyles' = a.head
                /\ timers' = a.timers
      /\ newDocRoot' = NoDocument
      /\ UNCHANGED <<cfg, stored, lsMode, storageEvents>>

\* The module script: registers the listeners, then refreshTheme().
Load ==
  /\ ~loaded
  /\ CanApply
  /\ loaded' = TRUE
  /\ UNCHANGED prefersDark
  /\ refreshTheme("load", prefersDark)

\* prefersDark.addListener(refreshTheme): the media query changed.
MediaChange ==
  /\ loaded
  /\ CanApply
  /\ prefersDark' = ~prefersDark
  /\ UNCHANGED loaded
  /\ refreshTheme("media", ~prefersDark)

\* setTheme(newTheme) of utils.ts dispatches set-theme synchronously; this is its
\* listener, handleSetTheme.
HandleSetTheme(detail) ==
  /\ loaded
  /\ CanApply
  /\ Handled([kind |-> "set-theme", key |-> Null, detail |-> detail])
  /\ IF Truthy(detail)
       THEN LET s == saveToLS(lsMode, stored, detail)
                a == applyTheme(cfg, detail, prefersDark, root, headStyles, timers)
            IN  /\ stored' = s.stored
                /\ uncaught' = s.threw
                /\ lastResolve' = NoResolve
                /\ lastApply' = IF s.threw THEN NoApply ELSE Applied(detail, "document")
                /\ stylesAtWrite' = IF s.threw THEN 0 ELSE a.headAtWrite
                /\ IF s.threw
                     THEN UNCHANGED <<root, headStyles, timers>>
                     ELSE /\ root' = a.d
                          /\ headStyles' = a.head
                          /\ timers' = a.timers
       ELSE LET r == getResolveTheme(cfg, lsMode, stored, prefersDark)
                s == saveToLS(lsMode, stored, r.value)
                a == applyTheme(cfg, r.value, prefersDark, root, headStyles, timers)
            IN  /\ lastResolve' = Resolution(cfg, lsMode, stored, prefersDark)
                /\ uncaught' = (r.threw \/ s.threw)
                /\ lastApply' = IF r.threw \/ s.threw THEN NoApply
                                ELSE Applied(r.value, "document")
                /\ stylesAtWrite' = IF r.threw \/ s.threw THEN 0 ELSE a.headAtWrite
                /\ stored' = IF r.threw THEN stored ELSE s.stored
                /\ IF r.threw \/ s.threw
                     THEN UNCHANGED <<root, headStyles, timers>>
                     ELSE /\ root' = a.d
                          /\ headStyles' = a.head
                          /\ timers' = a.timers
  /\ newDocRoot' = NoDocument
  /\ incomingRoot' = NoDocument
  /\ UNCHANGED <<cfg, lsMode, prefersDark, storageEvents, loaded>>

\* Another browsing context writes (or removes) the entry under storageKey; the
\* browser queues a storage event for this window.
OtherContextWrite(v) ==
  /\ loaded
  /\ lsMode # "denied"
  /\ Len(storageEvents) < MaxPending
  /\ v # stored
  /\ stored' = v
  /\ storageEvents' = Append(storageEvents, [key |-> storageKey, newValue |-> v])
  /\ Handled([kind |-> "other-context", key |-> storageKey, detail |-> v])
  /\ lastResolve' = NoResolve
  /\ lastApply' = NoApply
  /\ stylesAtWrite' = 0
  /\ incomingRoot' = NoDocument
  /\ newDocRoot' = NoDocument
  /\ UNCHANGED <<cfg, lsMode, prefersDark, root, headStyles, timers,
                 loaded, uncaught>>

\* Another browsing context writes some other key (key "other") or clears the
\* storage area (key null, newValue null).
OtherContextOtherKey(k, v) ==
  /\ loaded
  /\ lsMode # "denied"
  /\ Len(storageEvents) < MaxPending
  /\ k = Null => v = Null
  /\ stored' = IF k = Null THEN Null ELSE stored
  /\ storageEvents' = Append(storageEvents, [key |-> k, newValue |-> v])
  /\ Handled([kind |-> "other-context", key |-> k, detail |-> v])
  /\ lastResolve' = NoResolve
  /\ lastApply' = NoApply
  /\ stylesAtWrite' = 0
  /\ incomingRoot' = NoDocument
  /\ newDocRoot' = NoDocument
  /\ UNCHANGED <<cfg, lsMode, prefersDark, root, headStyles, timers,
                 loaded, uncaught>>

\* Mutant: the key check is missing, every storage event is applied.
StorageKeyMatches_Always(e) == TRUE

\* if (e.key !== storageKey) { return }
StorageKeyMatches(e) == e.key = storageKey

\* const handleStorage = (e) => ...
HandleStorage ==
  /\ loaded
  /\ storageEvents # <<>>
  /\ StyleRoom
  /\ LET e == Head(storageEvents)
         a == applyTheme(cfg, Or(e.newValue, cfg.defaultTheme), prefersDark,
                         root, headStyles, timers)
     IN  /\ Handled([kind |-> "storage", key |-> e.key, detail |-> e.newValue])
         /\ IF ~StorageKeyMatches(e)
              THEN /\ lastApply' = NoApply
                   /\ stylesAtWrite' = 0
                   /\ UNCHANGED <<root, headStyles, timers>>
              ELSE /\ lastApply' = Applied(Or(e.newValue, cfg.defaultTheme), "document")
                   /\ stylesAtWrite' = a.headAtWrite
                   /\ root' = a.d
                   /\ headStyles' = a.head
                   /\ timers' = a.timers
  /\ storageEvents' = Tail(storageEvents)
  /\ lastResolve' = NoResolve
  /\ uncaught' = FALSE
  /\ newDocRoot' = NoDocument
  /\ incomingRoot' = NoDocument
  /\ UNCHANGED <<cfg, stored, lsMode, prefersDark, loaded>>

\* const handleBeforeSwap = (e) => { applyTheme(getResolveTheme(), e.newDocument) }
HandleBeforeSwap(incoming) ==
  /\ loaded
  /\ CanApply
  /\ LET r == getResolveTheme(cfg, lsMode, stored, prefersDark)
         target == TargetOf("newDocument")
         a == applyTheme(cfg, r.value, prefersDark,
                         IF target = "newDocument" THEN incoming ELSE root,
                         headStyles, timers)
     IN  /\ uncaught' = r.threw
         /\ lastApply' = IF r.threw THEN NoApply ELSE Applied(r.value, target)
         /\ stylesAtWrite' = IF r.threw THEN 0 ELSE a.headAtWrite
         /\ IF r.threw
              THEN /\ newDocRoot' = incoming
                   /\ UNCHANGED <<root, headStyles, timers>>
              ELSE /\ newDocRoot' = IF target = "newDocument" THEN a.d ELSE incoming
                   /\ root' = IF target = "newDocument" THEN root ELSE a.d
                   /\ headStyles' = a.head
                   /\ timers' = a.timers
  /\ incomingRoot' = incoming
  /\ Handled([kind |-> "before-swap", key |-> Null, detail |-> Null])
  /\ lastResolve' = Resolution(cfg, lsMode, stored, prefersDark)
  /\ UNCHANGED <<cfg, stored, lsMode, prefersDark, storageEvents, loaded>>

\* setTimeout(() => { document.head.removeChild(css) }, 1)
TimerFire ==
  /\ timers > 0
  /\ timers' = timers - 1
  /\ headStyles' = headStyles - 1
  /\ Handled([kind |-> "timer", key |-> Null, detail |-> Null])
  /\ lastResolve' = NoResolve
  /\ lastApply' = NoApply
  /\ stylesAtWrite' = 0
  /\ incomingRoot' = NoDocument
  /\ newDocRoot' = NoDocument
  /\ UNCHANGED <<cfg, stored, lsMode, prefersDark, root, storageEvents,
                 loaded, uncaught>>

Next ==
  \/ Load
  \/ MediaChange
  \/ \E detail \in Details : HandleSetTheme(detail)
  \/ \E v \in StoredValues : OtherContextWrite(v)
  \/ \E k \in {"other", Null}, v \in {Null, "dark"} : OtherContextOtherKey(k, v)
  \/ HandleStorage
  \/ \E incoming \in InitRoots : HandleBeforeSwap(incoming)
  \/ TimerFire

Spec == Init /\ [][Next]_vars

----------------------------------------------------------------------------
(* Properties *)

\* The theme an apply of t stands for: the media-query scheme for "system" when
\* system detection is enabled, t itself otherwise.
ExpectedTheme(t) ==
  IF t = "system" /\ cfg.enableSystem
    THEN (IF prefersDark THEN "dark" ELSE "light")
    ELSE t

\* The value the configuration maps theme t to: t itself without a value map,
\* the map's entry with one, Null (attribute absent) when the map has no entry.
MappedValue(t) ==
  IF cfg.value.present
    THEN (IF t \in DOMAIN cfg.value.map THEN cfg.value.map[t] ELSE Null)
    ELSE t

DataTargets == { a \in Range(cfg.attribute) : a \in DataAttrs }

\* Every configured data-* target of element d holds the mapped value of t.
DataShows(d, t) ==
  \A a \in DataTargets : d.data[a] = MappedValue(ExpectedTheme(t))

\* The storage-or-default theme with "system" replaced by the media-query scheme.
ExpectedResolve(read, dark) ==
  LET t == IF read \in {Null, "", "<throws>"} THEN cfg.defaultTheme ELSE read
  IN  IF t = "system" THEN (IF dark THEN "dark" ELSE "light") ELSE t

\* C1: after a set-theme request with a non-empty detail x and working storage,
\* the storage entry equals x and every configured data attribute of the root
\* element equals the mapped value of x ("system" replaced by the current scheme
\* when system detection is enabled).
C1_SetThemePersistsAndApplies ==
  (lastEvent.kind = "set-theme" /\ Truthy(lastEvent.detail) /\ lsMode = "ok") =>
    /\ stored = lastEvent.detail
    /\ DataShows(root, lastEvent.detail)

C1_Witness ==
  /\ lastEvent.kind = "set-theme" /\ lastEvent.detail = "system" /\ lsMode = "ok"
  /\ cfg.enableSystem /\ prefersDark /\ cfg.value.present
  /\ cfg.attribute = <<"data-theme">>
  /\ stored = "system" /\ root.data["data-theme"] = "theme-dark"

\* C2: a set-theme request handled directly after a set-theme request with the
\* same detail changes neither the persisted value nor the root element
\* (attributes, class list, color-scheme style).
C2_SetThemeIdempotent ==
  [][(lastEvent'.kind = "set-theme" /\ repeated') => (stored' = stored /\ root' = root)]_vars

C2_Witness ==
  /\ lastEvent.kind = "set-theme" /\ repeated
  /\ lastEvent.detail = "dark" /\ stored = "dark"
  /\ "class" \in Range(cfg.attribute) /\ "dark" \in Range(root.classList)

\* C3: when neither the value read from storage nor the default is "system",
\* getResolveTheme returns the value read when it is non-empty, and the
\* configured default otherwise.
C3_ResolvePersistedElseDefault ==
  (/\ lastResolve.called
   /\ lastResolve.read \notin {"system", "<throws>"}
   /\ cfg.defaultTheme # "system") =>
     lastResolve.result = IF lastResolve.read \notin {Null, ""}
                            THEN lastResolve.read ELSE cfg.defaultTheme

C3_Witness ==
  /\ lastResolve.called /\ cfg.defaultTheme = "light"
  /\ lastResolve.read = "sepia" /\ lastResolve.result = "sepia"

\* C4: with system detection enabled and "system" as the storage-or-default
\* value, getResolveTheme returns "dark" when the media query matches and "light"
\* otherwise; after page load with default "system", nothing persisted, attribute
\* data-theme, no value map and a dark preference, the root has data-theme="dark".
C4_SystemResolvesToScheme ==
  /\ (/\ lastResolve.called /\ cfg.enableSystem
      /\ (IF lastResolve.read \in {Null, "", "<throws>"}
            THEN cfg.defaultTheme ELSE lastResolve.read) = "system") =>
        lastResolve.result = IF lastResolve.dark THEN "dark" ELSE "light"
  /\ (/\ lastEvent.kind = "load" /\ cfg.enableSystem /\ cfg.defaultTheme = "system"
      /\ stored = Null /\ cfg.attribute = <<"data-theme">> /\ ~cfg.value.present
      /\ prefersDark) =>
        root.data["data-theme"] = "dark"

C4_Witness ==
  /\ lastEvent.kind = "load" /\ cfg.enableSystem /\ cfg.defaultTheme = "system"
  /\ stored = Null /\ cfg.attribute = <<"data-theme">> /\ ~cfg.value.present
  /\ prefersDark /\ lastResolve.result = "dark" /\ root.data["data-theme"] = "dark"

\* The element the last applyTheme call wrote to.
AppliedElement == IF lastApply.doc = "newDocument" THEN newDocRoot ELSE root

\* C5: after applyTheme with a non-empty theme, every configured data-* target of
\* the element holds the mapped value of the resolved theme (the theme itself
\* without a value map) and is absent when the value map has no entry for it.
C5_DataAttributeHoldsMappedValue ==
  (lastApply.called /\ Truthy(lastApply.theme)) =>
    \A a \in DataTargets :
      LET t == ExpectedTheme(lastApply.theme)
      IN  IF ~cfg.value.present THEN AppliedElement.data[a] = t
          ELSE IF t \in DOMAIN cfg.value.map
            THEN AppliedElement.data[a] = cfg.value.map[t]
            ELSE AppliedElement.data[a] = Null

C5_Witness ==
  /\ lastApply.called /\ lastApply.theme = "sepia" /\ lastApply.doc = "document"
  /\ cfg.value.present /\ "sepia" \notin DOMAIN cfg.value.map
  /\ "data-mode" \in DataTargets /\ root.data["data-mode"] = Null
  /\ stored = "sepia"

\* The theme names the configuration knows: the keys of the value map, or the
\* themes list without one.
ConfiguredThemes == IF cfg.value.present THEN DOMAIN cfg.value.map ELSE cfg.themes

\* C6: with the class target, after applyTheme of a configured theme the class
\* list of the element contains the class value of that theme and the class value
\* of no other configured theme (no root element starts with a mapped class
\* value, so one that is present was written by an earlier apply).
C6_ClassListHoldsOnlyLastTheme ==
  (/\ lastApply.called
   /\ "class" \in Range(cfg.attribute)
   /\ ExpectedTheme(lastApply.theme) \in ConfiguredThemes) =>
     LET last == MappedValue(ExpectedTheme(lastApply.theme))
     IN  /\ last \in Range(AppliedElement.classList)
         /\ \A t \in ConfiguredThemes :
              MappedValue(t) # last => MappedValue(t) \notin Range(AppliedElement.classList)

C8_NullClearsSavedSetting ==
  (lastEvent.kind = "set-theme" /\ lastEvent.detail = Null /\ lsMode = "ok") =>
    /\ ~Truthy(stored)
    /\ getTheme(lsMode, stored, cfg.defaultTheme).value = cfg.defaultTheme

\* Element d shows theme t: its data-* targets hold the mapped value, and with
\* the class target its class list contains the mapped value when there is one.
Shows(d, t) ==
  /\ DataShows(d, t)
  /\ ("class" \in Range(cfg.attribute) /\ Truthy(MappedValue(ExpectedTheme(t)))) =>
       MappedValue(ExpectedTheme(t)) \in Range(d.classList)

\* The root element shows the theme carried by the last event / the default theme.
RootShowsEventTheme == Shows(root, lastEvent.detail)

RootShowsDefault == Shows(root, cfg.defaultTheme)

\* C9: handling a storage event never writes to storage; with a key other than
\* storageKey it leaves the root element unchanged; with storageKey it applies
\* newValue, or the default theme when newValue is null or empty.
C9_StorageEventApplies ==
  [][lastEvent'.kind = "storage" =>
       /\ stored' = stored
       /\ lastEvent'.key # storageKey => root' = root
       /\ lastEvent'.key = storageKey =>
            /\ Truthy(lastEvent'.detail) =>
                 (lastApply'.theme = lastEvent'.detail /\ RootShowsEventTheme')
            /\ ~Truthy(lastEvent'.detail) =>
                 (lastApply'.theme = cfg.defaultTheme /\ RootShowsDefault')]_vars

C9_Witness ==
  /\ lastEvent.kind = "storage" /\ lastEvent.key = storageKey /\ lastEvent.detail = Null
  /\ stored = Null /\ cfg.defaultTheme = "system" /\ cfg.enableSystem /\ prefersDark
  /\ cfg.attribute = <<"data-theme">> /\ ~cfg.value.present
  /\ root.data["data-theme"] = "dark"

\* C10: when the storage write throws during a set-theme request, no exception
\* leaves the handler, the stored value is unchanged and the requested theme is
\* applied to the root element; when the storage read throws in getResolveTheme,
\* no exception leaves the handler and the default theme is resolved.
C10_StorageFailuresSwallowed ==
  [][/\ (lastEvent'.kind = "set-theme" /\ lsMode # "ok") =>
          /\ ~uncaught'
          /\ stored' = stored
          /\ Truthy(lastEvent'.detail) =>
               (lastApply' = Applied(lastEvent'.detail, "document")
                  /\ RootShowsEventTheme')
     /\ (lastResolve'.called /\ lastResolve'.read = "<throws>") =>
          /\ ~uncaught'
          /\ lastResolve'.result = ExpectedResolve(Null, lastResolve'.dark)
          /\ lastApply'.called /\ lastApply'.theme = lastResolve'.result]_vars

C10_Witness ==
  /\ lastEvent.kind = "set-theme" /\ lastEvent.detail = "dark" /\ lsMode = "quota"
  /\ stored = "sepia" /\ ~uncaught
  /\ cfg.attribute = <<"data-theme">> /\ ~cfg.value.present
  /\ root.data["data-theme"] = "dark"

\* C11: with disableTransitionOnChange every applyTheme with a non-empty theme
\* appends one <style> to document.head before it writes the element, the style
\* is still there when the handler returns, and each timer removes one; so with
\* no timer pending no injected style is left.  Without the flag, and for an
\* empty theme, nothing is injected.
C11_StyleInjectedAndRemoved ==
  [][/\ (lastApply'.called /\ Truthy(lastApply'.theme) /\ cfg.disableTransitionOnChange) =>
          /\ stylesAtWrite' = headStyles + 1
          /\ headStyles' = headStyles + 1
          /\ timers' = timers + 1
     /\ lastEvent'.kind = "timer" =>
          (headStyles' = headStyles - 1 /\ timers' = timers - 1)
     /\ (~lastApply'.called /\ lastEvent'.kind # "timer") => headStyles' = headStyles
     /\ timers' = 0 => headStyles' = 0
     /\ ~cfg.disableTransitionOnChange => headStyles' = 0
     /\ \A t \in {Null, ""} :
          applyTheme(cfg, t, prefersDark, root, headStyles, timers).head = headStyles]_vars

C11_Witness ==
  /\ cfg.disableTransitionOnChange
  /\ lastEvent.kind = "timer" /\ repeated
  /\ timers = 0 /\ headStyles = 0

\* C12: with a forced theme configured, every applyTheme call of the script
\* (page load, set-theme, storage, media change, before-swap) applies the forced
\* theme to the element it writes.
C12_ForcedThemeApplied ==
  (cfg.forcedTheme # Null /\ lastApply.called) =>
    /\ lastApply.theme = cfg.forcedTheme
    /\ DataShows(AppliedElement, cfg.forcedTheme)

\* With the color-scheme hint, the element written by the last applyTheme has the
\* resolved theme as its color-scheme when that is "light" or "dark", else the
\* default theme when that is "light" or "dark", else none.
ColorSchemeFollowsTheme ==
  (cfg.enableColorScheme /\ lastApply.called /\ Truthy(lastApply.theme)) =>
    AppliedElement.colorScheme =
      (LET t == ExpectedTheme(lastApply.theme)
       IN  IF t \in {"light", "dark"} THEN t
           ELSE IF cfg.defaultTheme \in {"light", "dark"} THEN cfg.defaultTheme
           ELSE "")

\* The incoming document of a before-swap keeps the color-scheme it came with.
IncomingColorSchemeKept ==
  lastEvent.kind = "before-swap" => newDocRoot.colorScheme = incomingRoot.colorScheme

\* C13: with enableColorScheme the color-scheme style after applyTheme is the
\* resolved theme, else the default theme, when one of them is "light" or "dark",
\* and cleared otherwise; without enableColorScheme no handler changes it.
C13_ColorSchemeHint ==
  [][/\ ColorSchemeFollowsTheme'
     /\ ~cfg.enableColorScheme =>
          (root'.colorScheme = root.colorScheme /\ IncomingColorSchemeKept')]_vars

C13_Witness ==
  /\ cfg.enableColorScheme /\ cfg.defaultTheme = "light"
  /\ lastEvent.kind = "set-theme" /\ lastEvent.detail = "sepia"
  /\ lastApply.theme = "sepia" /\ root.colorScheme = "light"
  /\ "sepia" \in Range(root.classList)

\* What applyTheme(getResolveTheme()) would write to the root element now.
ReappliedRoot ==
  applyTheme(cfg, getResolveTheme(cfg, lsMode, stored, prefersDark).value,
             prefersDark, root, headStyles, timers).d

\* C14: with working storage, after page load and after any sequence of handled
\* set-theme, storage and media-change events, every theme attribute of the
\* current root element equals what applyTheme(getResolveTheme()) would write.
C14_RootIsFunctionOfStorage ==
  (loaded /\ lsMode = "ok" /\ storageEvents = <<>>) =>
    \A a \in DataTargets : root.data[a] = ReappliedRoot.data[a]

\* C15: with enableSystem false a change of the media query changes neither the
\* persisted value nor the root element (a run with the change and a run without
\* it must agree).
C15_MediaQueryIgnoredWhenDisabled ==
  [][(~cfg.enableSystem /\ lastEvent'.kind = "media") =>
       (stored' = stored /\ root' = root)]_vars

\* The incoming document shows the theme getResolveTheme returned.
IncomingShowsResolved ==
  /\ lastResolve.called
  /\ lastResolve.result = ExpectedResolve(lastResolve.read, lastResolve.dark)
  /\ lastApply = Applied(lastResolve.result, "newDocument")
  /\ Shows(newDocRoot, lastResolve.result)

\* C16: handling astro:before-swap applies the resolved theme to the root element
\* of the incoming document and changes neither the current root element
\* (attributes, class list, color-scheme) nor the persisted value.
C16_BeforeSwapWritesIncomingOnly ==
  [][lastEvent'.kind = "before-swap" =>
       /\ root' = root
       /\ stored' = stored
       /\ IncomingShowsResolved']_vars

C16_Witness ==
  /\ lastEvent.kind = "before-swap"
  /\ stored = "dark" /\ ~cfg.value.present
  /\ cfg.attribute = <<"class", "data-mode">>
  /\ root.data["data-mode"] = "sepia"
  /\ incomingRoot.data["data-mode"] = "light"
  /\ newDocRoot.data["data-mode"] = "dark"
  /\ "dark" \in Range(newDocRoot.classList)
  /\ "light" \notin Range(newDocRoot.classList)

====
